---- MODULE Spec2Model ----
(***************************************************************************)
(* Model of pi_face_tracker/nodes/ros2opencv.py: the ROS2OpenCV node.      *)
(*                                                                         *)
(* State: the attributes of the ROS2OpenCV object, the /roi topic, the     *)
(* display window and the shutdown request.  One action per callback:      *)
(* on_mouse_click (pointer events) and image_callback (color frames); the   *)
(* frame callback is also given statement by statement, for the claims     *)
(* about the order of its steps and about pointer events that arrive       *)
(* while it runs.                                                          *)
(* An image buffer is modelled by the set of layers drawn into it; a       *)
(* frame's pixels are abstracted to the frame's sequence number.           *)
(***************************************************************************)
EXTENDS Integers, Sequences, FiniteSets, TLC

VARIABLES
    image,            \* self.image: working copy of the current frame
    image_size,       \* self.image_size
    grey,             \* self.grey
    marker_image,     \* self.marker_image
    display_image,    \* self.display_image
    processed_image,  \* self.processed_image
    selected_point,   \* self.selected_point
    selection,        \* self.selection
    drag_start,       \* self.drag_start
    keystroke,        \* self.keystroke: None or <<code>>
    detect_box,       \* self.detect_box
    track_box,        \* self.track_box
    features,         \* self.features: "undefined" until key c assigns the empty list "[]"
    keep_marker_history,
    night_mode,
    show_text,
    show_features,
    flip_image,
    fps,              \* self.fps
    fps_values,       \* self.fps_values
    ROI,              \* self.ROI
    roi_topic,        \* messages published on /roi, in order
    window,           \* what cv.ShowImage last presented, and how often
    shutdown,         \* rospy.signal_shutdown was called
    nframes,          \* number of image_callback invocations so far
    nmouse,           \* number of on_mouse_click invocations so far
    last,             \* the callback that ran last, its event and its outcome
    pc,               \* the next statement of the frame callback, or "idle"
    trace             \* the steps the current or latest frame callback has run

vars == <<image, image_size, grey, marker_image, display_image, processed_image,
          selected_point, selection, drag_start, keystroke, detect_box, track_box,
          features, keep_marker_history, night_mode, show_text, show_features,
          flip_image, fps, fps_values, ROI, roi_topic, window, shutdown,
          nframes, nmouse, last, pc, trace>>

\* The attributes of the node object and its outputs (everything but the
\* bookkeeping of which callback ran).
node == <<image, image_size, grey, marker_image, display_image, processed_image,
          selected_point, selection, drag_start, keystroke, detect_box, track_box,
          features, keep_marker_history, night_mode, show_text, show_features,
          flip_image, fps, fps_values, ROI, roi_topic, window, shutdown>>

-----------------------------------------------------------------------------
(* Bounds of the model *)

\* Dimensions of the frames delivered by the camera.
Width == 2
Height == 2
\* Number of image_callback invocations explored.
MaxFrames == 3
\* Number of on_mouse_click invocations explored: with the pointer on the
\* diagonal of the frame (Spec, SpecAllInputs, SpecStatements), and anywhere
\* (SpecPointer, SpecDrag) or on the diagonal again (SpecInterleaved, SpecGesture).
MaxClicks == 2
MaxPointerEvents == 3

\* Pointer coordinates: one step before the frame, its first and last column
\* (row), its far edge, and one step beyond.
PointerX == {-1, 0, Width - 1, Width, Width + 1}
PointerY == {-1, 0, Height - 1, Height, Height + 1}

\* Pointer coordinates inside the frame.
InsideX == 0..(Width - 1)
InsideY == 0..(Height - 1)

\* Measured durations end - start, in milliseconds (time.time() is the wall
\* clock: it can stand still or step backwards).
Durations == {-300, 0, 500}

\* cv.WaitKey results: -1 (no key), C, c, f, n, q, t, x.
Keys == {-1, 67, 99, 102, 110, 113, 116, 120}

\* The keys and durations that decide what a frame displays and publishes:
\* no key, c, n, t; a zero and a positive duration.
DisplayKeys == {-1, 99, 110, 116}
DisplayDurations == {0, 500}

MouseEvents == {"CV_EVENT_MOUSEMOVE", "CV_EVENT_LBUTTONDOWN", "CV_EVENT_LBUTTONUP"}

-----------------------------------------------------------------------------
(* Values *)

None == << >>

\* RegionOfInterest(): all fields zero.
RegionOfInterest == <<0, 0, 0, 0>>

Unallocated == [allocated |-> FALSE, px |-> {}]
Buffer(px) == [allocated |-> TRUE, px |-> px]

NoImage == [allocated |-> FALSE, width |-> 0, height |-> 0, origin |-> FALSE, px |-> {}]

\* A CvBox2D ((cx, cy), (w, h), angle) as a tracker would supply it.
SampleTrackBox == <<<<1, 1>>, <<1, 1>>, 0>>

Abs(n) == IF n < 0 THEN 0 - n ELSE n
Min(a, b) == IF a < b THEN a ELSE b
Max(a, b) == IF a > b THEN a ELSE b

\* int(a / b) on Python floats: truncation toward zero.
TruncDiv(a, b) ==
    IF (a >= 0) = (b > 0) THEN Abs(a) \div Abs(b) ELSE 0 - (Abs(a) \div Abs(b))

\* a / b on Python 2 ints: floor division (b > 0 here).
FloorDiv(a, b) == a \div b

RECURSIVE Sum(_)
Sum(s) == IF s = << >> THEN 0 ELSE Head(s) + Sum(Tail(s))

-----------------------------------------------------------------------------
Init ==
    /\ image = NoImage
    /\ image_size = None
    /\ grey = Unallocated
    /\ marker_image = Unallocated
    /\ display_image = Unallocated
    /\ processed_image = Unallocated
    /\ selected_point = None
    /\ selection = None
    /\ drag_start = None
    /\ keystroke = None
    /\ detect_box = None
    /\ track_box = None
    /\ features = "undefined"
    /\ keep_marker_history = FALSE
    /\ night_mode = FALSE
    /\ show_text = TRUE
    /\ show_features = TRUE
    /\ flip_image \in BOOLEAN
    /\ fps = 0
    /\ fps_values = << >>
    /\ ROI = RegionOfInterest
    /\ roi_topic = << >>
    /\ window = [count |-> 0, px |-> {}]
    /\ shutdown = FALSE
    /\ nframes = 0
    /\ nmouse = 0
    /\ last = [op |-> "init", event |-> "", outcome |-> "", at |-> ""]
    /\ pc = "idle"
    /\ trace = << >>

-----------------------------------------------------------------------------
(* on_mouse_click *)

\* Mutant: the pointer is never mirrored.
MirrorY_Ignored(y) == y

\* y = self.image.height - y when the image origin is bottom-left.
MirrorY(y) == IF image.origin THEN image.height - y ELSE y

\* Mutant: the far edge is clamped to width - 1 and height - 1.
SelectionRect_ClampInside(x, y, ds) ==
    LET xmin == Max(0, Min(x, ds[1]))
        ymin == Max(0, Min(y, ds[2]))
        xmax == Min(image.width - 1, Max(x, ds[1]))
        ymax == Min(image.height - 1, Max(y, ds[2]))
    IN  <<xmin, ymin, xmax - xmin, ymax - ymin>>

\* The rectangle spanned by the drag start ds and the pointer (x, y).
SelectionRect(x, y, ds) ==
    LET xmin == Max(0, Min(x, ds[1]))
        ymin == Max(0, Min(y, ds[2]))
        xmax == Min(image.width, Max(x, ds[1]))
        ymax == Min(image.height, Max(y, ds[2]))
    IN  <<xmin, ymin, xmax - xmin, ymax - ymin>>

\* A new drag starts only on a left-button press while no drag is in progress.
StartsDrag(event) == event = "CV_EVENT_LBUTTONDOWN" /\ drag_start = None

\* Mutant: a release keeps only a selection of nonzero area.
ReleasedBox_NonzeroOnly ==
    IF selection # None /\ selection[3] > 0 /\ selection[4] > 0 THEN selection ELSE None

\* What a left-button release stores in detect_box.
ReleasedBox == selection

\* Mutant: a pointer event is handled before the first frame too.
NoImageYet_Never == FALSE

\* not self.image: no frame has been converted and copied yet.
NoImageYet == ~image.allocated

\* Mutant: a new drag keeps the detect box of the previous one.
PressedBox_Kept == detect_box

\* What a left-button press that starts a drag stores in detect_box.
PressedBox == None

on_mouse_click(event, x, y) ==
    /\ ~shutdown
    /\ nmouse' = nmouse + 1
    /\ IF NoImageYet
       THEN /\ UNCHANGED node
            /\ last' = [op |-> "mouse", event |-> event, outcome |-> "ignored", at |-> ""]
       ELSE LET ym == MirrorY(y)
                down == StartsDrag(event)
                up == event = "CV_EVENT_LBUTTONUP"
                \* after the LBUTTONDOWN block
                detect1 == IF down THEN PressedBox ELSE detect_box
                point1 == IF down THEN <<x, ym>> ELSE selected_point
                drag1 == IF down THEN <<x, ym>> ELSE drag_start
                \* after the LBUTTONUP block
                drag2 == IF up THEN None ELSE drag1
                detect2 == IF up THEN ReleasedBox ELSE detect1
            IN  /\ detect_box' = detect2
                /\ selected_point' = point1
                /\ drag_start' = drag2
                /\ selection' = IF drag2 # None
                                THEN SelectionRect(x, ym, drag2)
                                ELSE selection
                /\ last' = [op |-> "mouse", event |-> event, outcome |-> "handled",
                            at |-> ""]
                /\ UNCHANGED <<image, image_size, grey, marker_image, display_image,
                               processed_image, keystroke, track_box, features,
                               keep_marker_history, night_mode, show_text,
                               show_features, flip_image, fps, fps_values, ROI,
                               roi_topic, window, shutdown>>
    /\ UNCHANGED <<nframes, pc, trace>>

-----------------------------------------------------------------------------
(* image_callback and the helpers it calls *)

fps_n_values == 20

\* What the bridge did with the frame.
Conversion(ok) == IF ok THEN "converted" ELSE "CvBridgeError"

\* Mutant: a frame that failed to convert is processed like any other.
DropsFrame_Never(ok) == FALSE

\* convert_image returns None when the bridge raises CvBridgeError; the first
\* cv call on None (cv.Flip, cv.GetSize or cv.Copy) then raises TypeError, before
\* any attribute is assigned.
DropsFrame(ok) == ~ok

\* The cv call that raises on a frame that failed to convert.
RaiseSite ==
    IF flip_image THEN "cv.Flip"
    ELSE IF ~image.allocated THEN "cv.GetSize"
    ELSE "cv.Copy"

\* The buffers after lines 142-154: allocation on the first frame, the copy of
\* the frame n into self.image, and the clearing of the marker image.
AllocatedImage(origin) ==
    IF image.allocated THEN image
    ELSE [allocated |-> TRUE, width |-> Width, height |-> Height,
          origin |-> origin, px |-> {}]

\* Mutant: the marker image is cleared on allocation only.
ClearedMarkers_Kept == IF image.allocated THEN marker_image ELSE Buffer({})

ClearedMarkers ==
    LET created == IF image.allocated THEN marker_image ELSE Buffer({})
    IN  IF ~keep_marker_history THEN Buffer({}) ELSE created

\* Mutant: the ROI falls back to the zero rectangle when no box is set.
DerivedROI_Resets ==
    IF drag_start = None /\ detect_box # None
    THEN <<detect_box[1], detect_box[2], detect_box[3], detect_box[4]>>
    ELSE RegionOfInterest

\* process_image: the ROI message that is published.
DerivedROI ==
    IF drag_start = None /\ detect_box # None
    THEN <<detect_box[1], detect_box[2], detect_box[3], detect_box[4]>>
    ELSE ROI

\* Mutant: the ROI is published only when it has changed.
Published_OnChange(msg) == IF msg = ROI THEN roi_topic ELSE Append(roi_topic, msg)

\* process_image publishes self.ROI once.
Published(msg) == Append(roi_topic, msg)

\* is_rect_nonzero, for a CvRect (x, y, w, h) or a CvBox2D ((x, y), (w, h), a).
is_rect_nonzero(r) ==
    IF Len(r) = 4 THEN r[3] > 0 /\ r[4] > 0
    ELSE r[2][1] > 0 /\ r[2][2] > 0

\* display_markers: which feedback shape is drawn, if any.
DrawsSelection == drag_start # None /\ is_rect_nonzero(selection)

\* Mutant: the point is drawn only while no drag is in progress and no
\* detect box is set.
DrawsPoint_IdleOnly ==
    ~DrawsSelection /\ selected_point # None /\ drag_start = None /\ detect_box = None

DrawsPoint == ~DrawsSelection /\ selected_point # None

display_markers(marker) ==
    IF DrawsSelection THEN Buffer(marker.px \cup {<<"selection", selection>>})
    ELSE IF DrawsPoint THEN Buffer(marker.px \cup {<<"selected_point", selected_point>>})
    ELSE marker

\* Mutant: night mode leaves the processed image in place.
NightMode_Off(processed) == processed

\* Night mode zeroes the processed image before the merge.
NightMode(processed) == IF night_mode THEN Buffer({}) ELSE processed
\* Mutant: each box that is set is drawn.
BoxLayer_Both ==
    (IF track_box # None THEN {<<"track_box", track_box>>} ELSE {})
    \cup (IF detect_box # None THEN {<<"detect_box", detect_box>>} ELSE {})

\* cv.Or of the processed image and the marker image, then the box on top.
BoxLayer ==
    IF track_box # None THEN {<<"track_box", track_box>>}
    ELSE IF detect_box # None THEN {<<"detect_box", detect_box>>}
    ELSE {}

Composite(processed, marker) == Buffer(processed.px \cup marker.px \cup BoxLayer)

\* fps = int(1.0 / duration), duration in milliseconds here.
Rate(duration) == TruncDiv(1000, duration)

\* The window of samples after one more sample.
Recorded(rate) ==
    LET appended == Append(fps_values, rate)
    IN  IF Len(appended) > fps_n_values THEN Tail(appended) ELSE appended

\* int(sum(values) / len(values)) on Python 2 ints.
Smoothed(values) == FloorDiv(Sum(values), Len(values))

\* The two PutText calls.
TextLayer(value) ==
    IF show_text THEN {<<"text", <<value, Width, Height>>>>} ELSE {}

\* chr(k).lower() for the keys in [32, 128).
Lower(k) == IF 65 <= k /\ k <= 90 THEN k + 32 ELSE k
Dispatched(k) == IF 32 <= k /\ k < 128 THEN Lower(k) ELSE -1

\* Mutant: the key switches the flag on.
Toggled_On(flag, pressed) == IF pressed THEN TRUE ELSE flag

\* self.flag = not self.flag when the flag's key was pressed.
Toggled(flag, pressed) == IF pressed THEN ~flag ELSE flag

image_callback(ok, origin, key, duration) ==
    /\ ~shutdown
    /\ pc = "idle"
    /\ nframes' = nframes + 1
    /\ UNCHANGED <<nmouse, pc, trace>>
    /\ IF DropsFrame(ok)
       THEN /\ UNCHANGED node
            /\ last' = [op |-> "frame", event |-> Conversion(ok), outcome |-> "dropped",
                        at |-> RaiseSite]
       ELSE LET n == nframes + 1
                image1 == [AllocatedImage(origin) EXCEPT !.px = {<<"frame", n>>}]
                marker1 == ClearedMarkers
                roi1 == DerivedROI
                processed1 == Buffer({<<"grey", n>>})
                marker2 == display_markers(marker1)
                point2 == IF DrawsSelection THEN None ELSE selected_point
                processed2 == NightMode(processed1)
                display1 == Composite(processed2, marker2)
                cc == Dispatched(key)
            IN  /\ image' = image1
                /\ image_size' = <<Width, Height>>
                /\ marker_image' = marker2
                /\ grey' = Buffer({<<"grey", n>>})
                /\ ROI' = roi1
                /\ roi_topic' = Published(roi1)
                /\ processed_image' = processed2
                /\ selected_point' = point2
                /\ keystroke' = <<key>>
                /\ UNCHANGED <<selection, drag_start, keep_marker_history, flip_image>>
                /\ IF duration = 0
                   THEN \* ZeroDivisionError leaves the callback at line 187
                        /\ display_image' = display1
                        /\ last' = [op |-> "frame", event |-> Conversion(ok),
                                    outcome |-> "raised", at |-> "int(1.0 / duration)"]
                        /\ UNCHANGED <<fps, fps_values, window, detect_box, track_box,
                                       features, night_mode, show_text, show_features,
                                       shutdown>>
                   ELSE LET values == Recorded(Rate(duration))
                            value == Smoothed(values)
                            display2 == Buffer(display1.px \cup TextLayer(value))
                        IN  /\ fps_values' = values
                            /\ fps' = value
                            /\ display_image' = display2
                            /\ window' = [count |-> window.count + 1, px |-> display2.px]
                            /\ features' = IF cc = 99 THEN "[]" ELSE features
                            /\ track_box' = IF cc = 99 THEN None ELSE track_box
                            /\ detect_box' = IF cc = 99 THEN None ELSE detect_box
                            /\ night_mode' = Toggled(night_mode, cc = 110)
                            /\ show_features' = Toggled(show_features, cc = 102)
                            /\ show_text' = Toggled(show_text, cc = 116)
                            /\ shutdown' = IF cc = 113 THEN TRUE ELSE shutdown
                            /\ last' = [op |-> "frame", event |-> Conversion(ok),
                                        outcome |-> "done", at |-> ""]

-----------------------------------------------------------------------------
(* The tracker of a derived node supplies track_box; the base node only      *)
(* displays and clears it.                                                   *)
SetTrackBox ==
    /\ ~shutdown
    /\ image.allocated
    /\ track_box = None
    /\ nframes < MaxFrames
    /\ track_box' = SampleTrackBox
    /\ last' = [op |-> "tracker", event |-> "", outcome |-> "", at |-> ""]
    /\ UNCHANGED <<image, image_size, grey, marker_image, display_image,
                   processed_image, selected_point, selection, drag_start, keystroke,
                   detect_box, features, keep_marker_history, night_mode, show_text,
                   show_features, flip_image, fps, fps_values, ROI, roi_topic, window,
                   shutdown, nframes, nmouse, pc, trace>>

-----------------------------------------------------------------------------
(* image_callback statement by statement.  A pointer event originates from   *)
(* the UI event source: when it is delivered from another thread it runs     *)
(* between two statements of the frame callback.  The steps below are the    *)
(* statements of image_callback, process_image and display_markers that read *)
(* or write the attributes on_mouse_click shares with them; pc is the next   *)
(* statement and trace the steps the callback has run so far.                *)

Running(at) == [op |-> "frame", event |-> "converted", outcome |-> "running", at |-> at]
Raised(at) == [op |-> "frame", event |-> "converted", outcome |-> "raised", at |-> at]

\* Lines 132-154 and 235-241: conversion, flip, allocation of the buffers on
\* the first frame, copy of the frame, clearing of the markers, grey image.
ConvertAndCopy(ok, origin) ==
    /\ ~shutdown
    /\ pc = "idle"
    /\ nframes' = nframes + 1
    /\ UNCHANGED nmouse
    /\ IF DropsFrame(ok)
       THEN /\ UNCHANGED node
            /\ pc' = "idle"
            /\ trace' = <<"convert_image">>
            /\ last' = [op |-> "frame", event |-> Conversion(ok), outcome |-> "dropped",
                        at |-> RaiseSite]
       ELSE /\ image' = [AllocatedImage(origin) EXCEPT !.px = {<<"frame", nframes + 1>>}]
            /\ image_size' = <<Width, Height>>
            /\ marker_image' = ClearedMarkers
            /\ display_image' = IF image.allocated THEN display_image ELSE Buffer({})
            /\ processed_image' = IF image.allocated THEN processed_image ELSE Buffer({})
            /\ grey' = Buffer({<<"grey", nframes + 1>>})
            /\ pc' = "process_image.if"
            /\ trace' = <<"convert_image">>
            /\ last' = Running("")
            /\ UNCHANGED <<selected_point, selection, drag_start, keystroke, detect_box,
                           track_box, features, keep_marker_history, night_mode,
                           show_text, show_features, flip_image, fps, fps_values, ROI,
                           roi_topic, window, shutdown>>

\* Line 244: the test that guards the derivation of the ROI, and line 245.
ProcessImageIf ==
    /\ pc = "process_image.if"
    /\ IF drag_start = None /\ detect_box # None
       THEN ROI' = RegionOfInterest /\ pc' = "ROI[1]"
       ELSE ROI' = ROI /\ pc' = "pubROI.publish"
    /\ trace' = Append(trace, "if detect_box")
    /\ last' = Running("")
    /\ UNCHANGED <<image, image_size, grey, marker_image, display_image,
                   processed_image, selected_point, selection, drag_start, keystroke,
                   detect_box, track_box, features, keep_marker_history, night_mode,
                   show_text, show_features, flip_image, fps, fps_values, roi_topic,
                   window, shutdown, nframes, nmouse>>

ROIFields == <<"ROI[1]", "ROI[2]", "ROI[3]", "ROI[4]">>

\* Lines 246-249, one assignment each: self.ROI.<field> = self.detect_box[i].
\* Subscripting None raises TypeError, which leaves the callback.
ReadDetectBoxField(i) ==
    /\ pc = ROIFields[i]
    /\ IF detect_box = None
       THEN /\ ROI' = ROI
            /\ pc' = "idle"
            /\ last' = Raised("self.detect_box[i]")
       ELSE /\ ROI' = [ROI EXCEPT ![i] = detect_box[i]]
            /\ pc' = IF i < 4 THEN ROIFields[i + 1] ELSE "pubROI.publish"
            /\ last' = Running("")
    /\ trace' = Append(trace, ROIFields[i])
    /\ UNCHANGED <<image, image_size, grey, marker_image, display_image,
                   processed_image, selected_point, selection, drag_start, keystroke,
                   detect_box, track_box, features, keep_marker_history, night_mode,
                   show_text, show_features, flip_image, fps, fps_values, roi_topic,
                   window, shutdown, nframes, nmouse>>

\* Line 251, and lines 160-163: the grey image becomes the processed image.
PublishROI ==
    /\ pc = "pubROI.publish"
    /\ roi_topic' = Published(ROI)
    /\ processed_image' = Buffer({<<"grey", nframes>>})
    /\ pc' = "display_markers"
    /\ trace' = Append(trace, "pubROI.publish")
    /\ last' = Running("")
    /\ UNCHANGED <<image, image_size, grey, marker_image, display_image,
                   selected_point, selection, drag_start, keystroke, detect_box,
                   track_box, features, keep_marker_history, night_mode, show_text,
                   show_features, flip_image, fps, fps_values, ROI, window, shutdown,
                   nframes, nmouse>>

\* Lines 166-173: display_markers, night mode, cv.Or into the display image.
DisplayMarkers ==
    /\ pc = "display_markers"
    /\ marker_image' = display_markers(marker_image)
    /\ selected_point' = IF DrawsSelection THEN None ELSE selected_point
    /\ processed_image' = NightMode(processed_image)
    /\ display_image' = Buffer(processed_image'.px \cup marker_image'.px)
    /\ pc' = "if track_box"
    /\ trace' = Append(trace, "display_markers")
    /\ last' = Running("")
    /\ UNCHANGED <<image, image_size, grey, selection, drag_start, keystroke,
                   detect_box, track_box, features, keep_marker_history, night_mode,
                   show_text, show_features, flip_image, fps, fps_values, ROI,
                   roi_topic, window, shutdown, nframes, nmouse>>

\* Lines 175-178: the two tests, and the ellipse of the track box.
BoxIf ==
    /\ pc = "if track_box"
    /\ IF track_box # None
       THEN /\ display_image' = Buffer(display_image.px \cup {<<"track_box", track_box>>})
            /\ pc' = "cv.WaitKey"
       ELSE /\ display_image' = display_image
            /\ pc' = IF detect_box # None THEN "cv.Rectangle" ELSE "cv.WaitKey"
    /\ trace' = Append(trace, "box")
    /\ last' = Running("")
    /\ UNCHANGED <<image, image_size, grey, marker_image, processed_image,
                   selected_point, selection, drag_start, keystroke, detect_box,
                   track_box, features, keep_marker_history, night_mode, show_text,
                   show_features, flip_image, fps, fps_values, ROI, roi_topic, window,
                   shutdown, nframes, nmouse>>

\* Lines 179-180: (pt1_x, pt1_y, w, h) = self.detect_box, then the rectangle.
\* Unpacking None raises TypeError, which leaves the callback.
DrawDetectBox ==
    /\ pc = "cv.Rectangle"
    /\ IF detect_box = None
       THEN /\ display_image' = display_image
            /\ pc' = "idle"
            /\ last' = Raised("(pt1_x, pt1_y, w, h) = self.detect_box")
       ELSE /\ display_image' = Buffer(display_image.px \cup {<<"detect_box", detect_box>>})
            /\ pc' = "cv.WaitKey"
            /\ last' = Running("")
    /\ trace' = Append(trace, "cv.Rectangle")
    /\ UNCHANGED <<image, image_size, grey, marker_image, processed_image,
                   selected_point, selection, drag_start, keystroke, detect_box,
                   track_box, features, keep_marker_history, night_mode, show_text,
                   show_features, flip_image, fps, fps_values, ROI, roi_topic, window,
                   shutdown, nframes, nmouse>>

\* Line 183: self.keystroke = cv.WaitKey(5).
WaitKey(key) ==
    /\ pc = "cv.WaitKey"
    /\ keystroke' = <<key>>
    /\ pc' = "end = time.time()"
    /\ trace' = Append(trace, "cv.WaitKey")
    /\ last' = Running("")
    /\ UNCHANGED <<image, image_size, grey, marker_image, display_image,
                   processed_image, selected_point, selection, drag_start, detect_box,
                   track_box, features, keep_marker_history, night_mode, show_text,
                   show_features, flip_image, fps, fps_values, ROI, roi_topic, window,
                   shutdown, nframes, nmouse>>

\* Lines 185-191: the duration ends here; the rate, the window, the mean.
UpdateFps(duration) ==
    /\ pc = "end = time.time()"
    /\ IF duration = 0
       THEN /\ UNCHANGED <<fps, fps_values>>
            /\ pc' = "idle"
            /\ last' = Raised("int(1.0 / duration)")
       ELSE /\ fps_values' = Recorded(Rate(duration))
            /\ fps' = Smoothed(fps_values')
            /\ pc' = "cv.PutText"
            /\ last' = Running("")
    /\ trace' = Append(trace, "end = time.time()")
    /\ UNCHANGED <<image, image_size, grey, marker_image, display_image,
                   processed_image, selected_point, selection, drag_start, keystroke,
                   detect_box, track_box, features, keep_marker_history, night_mode,
                   show_text, show_features, flip_image, ROI, roi_topic, window,
                   shutdown, nframes, nmouse>>

\* Lines 193-196: the text overlay.
PutText ==
    /\ pc = "cv.PutText"
    /\ display_image' = Buffer(display_image.px \cup TextLayer(fps))
    /\ pc' = "cv.ShowImage"
    /\ trace' = Append(trace, "cv.PutText")
    /\ last' = Running("")
    /\ UNCHANGED <<image, image_size, grey, marker_image, processed_image,
                   selected_point, selection, drag_start, keystroke, detect_box,
                   track_box, features, keep_marker_history, night_mode, show_text,
                   show_features, flip_image, fps, fps_values, ROI, roi_topic, window,
                   shutdown, nframes, nmouse>>

\* Line 199: the display image is presented.
ShowImage ==
    /\ pc = "cv.ShowImage"
    /\ window' = [count |-> window.count + 1, px |-> display_image.px]
    /\ pc' = "key dispatch"
    /\ trace' = Append(trace, "cv.ShowImage")
    /\ last' = Running("")
    /\ UNCHANGED <<image, image_size, grey, marker_image, display_image,
                   processed_image, selected_point, selection, drag_start, keystroke,
                   detect_box, track_box, features, keep_marker_history, night_mode,
                   show_text, show_features, flip_image, fps, fps_values, ROI,
                   roi_topic, shutdown, nframes, nmouse>>

\* Lines 201-216: the key polled at line 183 is dispatched.
KeyDispatch ==
    /\ pc = "key dispatch"
    /\ LET cc == Dispatched(keystroke[1])
       IN  /\ features' = IF cc = 99 THEN "[]" ELSE features
           /\ track_box' = IF cc = 99 THEN None ELSE track_box
           /\ detect_box' = IF cc = 99 THEN None ELSE detect_box
           /\ night_mode' = Toggled(night_mode, cc = 110)
           /\ show_features' = Toggled(show_features, cc = 102)
           /\ show_text' = Toggled(show_text, cc = 116)
           /\ shutdown' = IF cc = 113 THEN TRUE ELSE shutdown
    /\ pc' = "idle"
    /\ trace' = Append(trace, "key dispatch")
    /\ last' = [op |-> "frame", event |-> "converted", outcome |-> "done", at |-> ""]
    /\ UNCHANGED <<image, image_size, grey, marker_image, display_image,
                   processed_image, selected_point, selection, drag_start, keystroke,
                   keep_marker_history, flip_image, fps, fps_values, ROI, roi_topic,
                   window, nframes, nmouse>>

-----------------------------------------------------------------------------
(* Specifications.                                                           *)
(*   Spec          the frame pipeline: frames that convert or not, the keys    *)
(*                 and durations that decide what is displayed, the pointer    *)
(*                 on the diagonal of the frame, the tracker;                  *)
(*   SpecAllInputs the same with every key and every duration;                 *)
(*   SpecPointer   every pointer position, inside and outside the frame, and   *)
(*                 both image origins, with frames that convert, take a        *)
(*                 positive time and see no key;                               *)
(*   SpecDrag      the same with the pointer inside the frame.                 *)

Diagonal == {0, Width - 1}

MouseEvent ==
    /\ nmouse < MaxClicks
    /\ \E event \in MouseEvents, d \in Diagonal : on_mouse_click(event, d, d)

Frame ==
    /\ nframes < MaxFrames
    /\ \E ok \in BOOLEAN, key \in DisplayKeys, duration \in DisplayDurations :
          image_callback(ok, FALSE, key, duration)

Next == MouseEvent \/ Frame \/ SetTrackBox

Spec == Init /\ [][Next]_vars

AnyFrame ==
    /\ nframes < MaxFrames
    /\ \E ok \in BOOLEAN, key \in Keys, duration \in Durations :
          image_callback(ok, FALSE, key, duration)

NextAllInputs == MouseEvent \/ AnyFrame \/ SetTrackBox

SpecAllInputs == Init /\ [][NextAllInputs]_vars

PointerEvent ==
    /\ nmouse < MaxPointerEvents
    /\ \E event \in MouseEvents, x \in PointerX, y \in PointerY :
          on_mouse_click(event, x, y)

PlainFrame ==
    /\ nframes < MaxFrames
    /\ \E origin \in BOOLEAN : image_callback(TRUE, origin, -1, 500)

NextPointer == PointerEvent \/ PlainFrame

InitPointer == Init /\ ~flip_image

SpecPointer == InitPointer /\ [][NextPointer]_vars

DragEvent ==
    /\ nmouse < MaxPointerEvents
    /\ \E event \in MouseEvents, x \in InsideX, y \in InsideY :
          on_mouse_click(event, x, y)

NextDrag == DragEvent \/ PlainFrame

SpecDrag == InitPointer /\ [][NextDrag]_vars

-----------------------------------------------------------------------------
(* Specifications of the statement-level callback.                           *)
(*   SpecStatements  the callbacks run one after the other, as on a single    *)
(*                   display thread: a pointer event is handled only between  *)
(*                   two frame callbacks; every key;                          *)
(*   SpecInterleaved a pointer event may be handled between any two           *)
(*                   statements of a frame callback; no key or key c;         *)

BeginFrame ==
    /\ nframes < MaxFrames
    /\ \E ok \in BOOLEAN : ConvertAndCopy(ok, FALSE)

ProcessImage ==
    \/ ProcessImageIf
    \/ \E i \in 1..4 : ReadDetectBoxField(i)
    \/ PublishROI

DrawOverlays == DisplayMarkers \/ BoxIf \/ DrawDetectBox

PresentFrame == UpdateFps(500) \/ PutText \/ ShowImage

AnyKey == \E key \in Keys : WaitKey(key)

IdleMouseEvent == pc = "idle" /\ MouseEvent

IdleSetTrackBox == pc = "idle" /\ SetTrackBox

NextStatements ==
    \/ IdleMouseEvent
    \/ IdleSetTrackBox
    \/ BeginFrame
    \/ ProcessImage
    \/ DrawOverlays
    \/ AnyKey
    \/ PresentFrame
    \/ KeyDispatch

SpecStatements == InitPointer /\ [][NextStatements]_vars

\* cv.WaitKey results: no key, c.
ClearKeys == {-1, 99}

ClearKey == \E key \in ClearKeys : WaitKey(key)

DiagonalEvent ==
    /\ nmouse < MaxPointerEvents
    /\ \E event \in MouseEvents, d \in Diagonal : on_mouse_click(event, d, d)

NextInterleaved ==
    \/ DiagonalEvent
    \/ BeginFrame
    \/ ProcessImage
    \/ DrawOverlays
    \/ ClearKey
    \/ PresentFrame
    \/ KeyDispatch

SpecInterleaved == InitPointer /\ [][NextInterleaved]_vars

(*   SpecGesture     three pointer events on the diagonal of the frame and    *)
(*                   frames that see no key or key c, one callback after the  *)
(*                   other.                                                   *)

ClearFrame ==
    /\ nframes < MaxFrames
    /\ \E key \in ClearKeys : image_callback(TRUE, FALSE, key, 500)

NextGesture == DiagonalEvent \/ ClearFrame

SpecGesture == InitPointer /\ [][NextGesture]_vars

-----
(* Properties *)

Last(s) == s[Len(s)]

MouseHandled(event) ==
    last.op = "mouse" /\ last.event = event /\ last.outcome = "handled"

\* A frame that converted: image_callback ran at least up to the FPS update.
FrameProcessed == last.op = "frame" /\ last.outcome \in {"done", "raised"}

\* A frame that went through the whole of image_callback.
FrameDone == last.op = "frame" /\ last.outcome = "done"

\* The pointer position (x, y), as delivered, lies inside the frame.
InsideFrame(x, y) == 0 <= x /\ x < image.width /\ 0 <= y /\ y < image.height

\* C1: whenever SelectionRegion (x, y, w, h) is set, w >= 0, h >= 0,
\* 0 <= x < frame.width and 0 <= y < frame.height.
C1_SelectionWithinFrame ==
    selection # None =>
        /\ selection[3] >= 0
        /\ selection[4] >= 0
        /\ 0 <= selection[1] /\ selection[1] < image.width
        /\ 0 <= selection[2] /\ selection[2] < image.height

\* C2: a handled ButtonDown leaves DetectBox unset; a handled ButtonUp leaves
\* DetectBox equal to the SelectionRegion held when the ButtonUp is handled,
\* zero-area rectangles included.
C2_DownClearsUpSets ==
    [][ (MouseHandled("CV_EVENT_LBUTTONDOWN")' => detect_box' = None)
        /\ (MouseHandled("CV_EVENT_LBUTTONUP")' =>
               detect_box' = selection /\ detect_box' = selection') ]_vars

\* C2 witness: a ButtonUp has stored a zero-area selection as DetectBox.
C2_Witness ==
    /\ MouseHandled("CV_EVENT_LBUTTONUP")
    /\ detect_box # None
    /\ detect_box = selection
    /\ detect_box[3] = 0

\* The ROI the claim C3 expects a frame to publish, from the state before it.
C3_ExpectedROI ==
    IF drag_start = None /\ detect_box # None THEN detect_box
    ELSE IF roi_topic = << >> THEN <<0, 0, 0, 0>>
    ELSE Last(roi_topic)

\* C3: a processed frame publishes DetectBox's (x, y, w, h) if no drag is in
\* progress and DetectBox is set; otherwise it publishes the previously
\* published ROI, or the zero rectangle if none was published before.
C3_PublishedROI ==
    [][ FrameProcessed' =>
            /\ Len(roi_topic') = Len(roi_topic) + 1
            /\ Last(roi_topic') = C3_ExpectedROI ]_vars

\* C3 witness: a frame processed during a drag has published again a ROI
\* that an earlier frame took from DetectBox.
C3_Witness ==
    /\ FrameProcessed
    /\ drag_start # None
    /\ Len(roi_topic) >= 2
    /\ Last(roi_topic) # <<0, 0, 0, 0>>
    /\ Last(roi_topic) = roi_topic[Len(roi_topic) - 1]

\* The vertical pointer coordinate in image coordinates: y for a top-left
\* origin, frame.height - y for a bottom-left origin.
C10_Y(y) == IF image.origin THEN image.height - y ELSE y

\* The drag in progress started at a pointer position inside the frame.
C10_StartInside ==
    /\ drag_start # None
    /\ InsideFrame(drag_start[1], C10_Y(drag_start[2]))

\* C10: a drag ButtonDown(x0, y0), PointerMove(x1, y1), ButtonUp with both
\* points inside the frame: the ButtonDown records (x0, y0'), the move sets
\* SelectionRegion to (min(x0,x1), min(y0',y1'), |x1-x0|, |y1'-y0'|), the
\* release copies it to DetectBox, and the next processed frame publishes it.
C10_DragGesture ==
    [][ /\ last'.op = "mouse" /\ image.allocated =>
            \A x \in InsideX, y \in InsideY :
                /\ ( /\ last'.event = "CV_EVENT_LBUTTONDOWN"
                     /\ on_mouse_click("CV_EVENT_LBUTTONDOWN", x, y)
                     /\ drag_start = None
                     /\ InsideFrame(x, y) )
                   => /\ drag_start' = <<x, C10_Y(y)>>
                      /\ selection' = <<x, C10_Y(y), 0, 0>>
                /\ ( /\ last'.event = "CV_EVENT_MOUSEMOVE"
                     /\ on_mouse_click("CV_EVENT_MOUSEMOVE", x, y)
                     /\ C10_StartInside
                     /\ InsideFrame(x, y) )
                   => selection' = << Min(drag_start[1], x),
                                      Min(drag_start[2], C10_Y(y)),
                                      Abs(x - drag_start[1]),
                                      Abs(C10_Y(y) - drag_start[2]) >>
                /\ ( /\ last'.event = "CV_EVENT_LBUTTONUP"
                     /\ on_mouse_click("CV_EVENT_LBUTTONUP", x, y)
                     /\ drag_start # None )
                   => /\ detect_box' = selection
                      /\ drag_start' = None
        /\ ( /\ MouseHandled("CV_EVENT_LBUTTONUP")
             /\ detect_box # None
             /\ FrameProcessed' )
           => Last(roi_topic') = detect_box ]_vars

\* C10 witness: with a bottom-left origin, a frame has published the
\* nonzero-area rectangle of a drag that a ButtonUp made the DetectBox.
C10_Witness ==
    /\ FrameProcessed
    /\ image.origin
    /\ drag_start = None
    /\ detect_box # None
    /\ detect_box[3] > 0 /\ detect_box[4] > 0
    /\ Last(roi_topic) = detect_box

\* C4: a frame callback whose conversion succeeds publishes the ROI message
\* exactly once, whatever the drag state, night mode, key or duration, and
\* nothing else publishes: the messages on /roi count the converted frames.
C4_PublishedOncePerFrame ==
    [][ IF last'.op = "frame" /\ last'.event = "converted"
        THEN Len(roi_topic') = Len(roi_topic) + 1
             /\ SubSeq(roi_topic', 1, Len(roi_topic)) = roi_topic
        ELSE roi_topic' = roi_topic ]_vars

\* C4 witness: three frames have published three messages, the last one
\* during a drag, in night mode, with an unchanged ROI and a zero duration.
C4_Witness ==
    /\ last.op = "frame" /\ last.outcome = "raised"
    /\ night_mode
    /\ drag_start # None
    /\ Len(roi_topic) = 3
    /\ roi_topic[3] = roi_topic[2]

\* The window of C5 after one more rate: the last 20 rates in arrival order.
C5_Window(rates) ==
    IF Len(rates) > 20 THEN SubSeq(rates, Len(rates) - 19, Len(rates)) ELSE rates

\* C5: the FPS window holds at most 20 samples, each recorded rate is appended
\* in arrival order with the oldest evicted first, and the exposed FPS value is
\* the arithmetic mean of the window truncated to an integer.
C5_FpsWindowMean ==
    [][ /\ Len(fps_values') <= 20
        /\ fps_values' # << >> =>
               fps' = TruncDiv(Sum(fps_values'), Len(fps_values'))
        /\ fps_values' # fps_values =>
               \E d \in Durations \ {0} :
                   fps_values' = C5_Window(Append(fps_values, TruncDiv(1000, d))) ]_vars

\* C6: a frame whose conversion fails changes no attribute of the node,
\* publishes nothing, presents nothing and dispatches no key.
C6_FailedConversionChangesNothing ==
    [][ (last'.op = "frame" /\ last'.event = "CvBridgeError") => UNCHANGED node ]_vars

\* C6 witness: a later frame failed to convert, with flip_image on, after the
\* buffers were allocated and a ROI was published.
C6_Witness ==
    /\ last.op = "frame" /\ last.event = "CvBridgeError"
    /\ last.at = "cv.Flip"
    /\ image.allocated
    /\ Len(roi_topic) = 1
    /\ nframes = 2

\* The one feedback shape display_markers draws for the current selection state.
C7_Feedback ==
    IF drag_start # None /\ selection # None /\ selection[3] > 0 /\ selection[4] > 0
    THEN {<<"selection", selection>>}
    ELSE IF selected_point # None THEN {<<"selected_point", selected_point>>}
    ELSE {}

\* C7: with keep_marker_history = false, after every processed frame the
\* marker overlay holds exactly the feedback shape drawn during that frame (at
\* most one rectangle or circle), and is empty if nothing was drawn.
C7_MarkersOfThisFrameOnly ==
    (FrameProcessed /\ ~keep_marker_history) =>
        /\ Cardinality(marker_image.px) <= 1
        /\ marker_image.px = C7_Feedback

\* C7 witness: the window still shows the point marker an earlier frame drew,
\* while the overlay of the latest frame holds the selection rectangle only.
C7_Witness ==
    /\ last.op = "frame" /\ last.outcome = "raised"
    /\ ~keep_marker_history
    /\ \E layer \in window.px : layer[1] = "selected_point"
    /\ marker_image.px = {<<"selection", selection>>}

\* C8 as stated: a frame presented in night mode with TrackBox set shows the
\* marker overlay and the TrackBox outline and nothing else.
C8_NightModeDisplayOriginal ==
    [][ (night_mode /\ track_box # None /\ FrameDone') =>
            window'.px = marker_image'.px \cup {<<"track_box", track_box>>} ]_vars

\* C8 amended: a frame presented in night mode with TrackBox set shows the
\* marker overlay, the TrackBox outline and, when show_text is on, the
\* FPS/resolution text, and nothing else: no processed-image content.
C8_NightModeDisplay ==
    [][ (night_mode /\ track_box # None /\ FrameDone') =>
            window'.px = marker_image'.px \cup {<<"track_box", track_box>>}
                         \cup (IF show_text
                               THEN {<<"text", <<fps', image_size'[1], image_size'[2]>>>>}
                               ELSE {}) ]_vars

\* C8 witness: night mode is on, TrackBox is set and the frame just presented
\* shows the TrackBox outline and a marker.
C8_Witness ==
    /\ FrameDone
    /\ night_mode /\ keystroke = <<-1>>
    /\ track_box # None
    /\ <<"track_box", track_box>> \in window.px
    /\ marker_image.px # {}
    /\ marker_image.px \subseteq window.px

\* C9: a frame whose measured duration is zero or negative leaves the FPS
\* window and the smoothed value unchanged, and the callback still runs to
\* its end: the display is presented, the key dispatched, no error escapes.
C9_DegenerateDurationSkipped ==
    [][ \A key \in Keys, d \in Durations :
            (d <= 0 /\ last'.op = "frame" /\ image_callback(TRUE, FALSE, key, d)) =>
                /\ UNCHANGED <<fps, fps_values>>
                /\ window'.count = window.count + 1
                /\ last'.outcome = "done" ]_vars

\* The box outlines among the layers of a buffer.
C11_Boxes(px) == {layer \in px : layer[1] \in {"track_box", "detect_box"}}

\* C11 as stated: in every processed frame TrackBox is drawn if present,
\* otherwise DetectBox if present, DetectBox is never drawn when TrackBox is
\* present, and exactly one of the two is drawn.
C11_ExactlyOneBoxDrawn ==
    [][ FrameProcessed' =>
            /\ track_box # None =>
                   C11_Boxes(display_image'.px) = {<<"track_box", track_box>>}
            /\ (track_box = None /\ detect_box # None) =>
                   C11_Boxes(display_image'.px) = {<<"detect_box", detect_box>>}
            /\ Cardinality(C11_Boxes(display_image'.px)) = 1 ]_vars

\* C11 amended: in every processed frame TrackBox is drawn if present,
\* otherwise DetectBox if present, DetectBox is never drawn when TrackBox is
\* present; at most one of the two is drawn, and none when neither is present.
C11_TrackBoxElseDetectBox ==
    [][ FrameProcessed' =>
            /\ track_box # None =>
                   C11_Boxes(display_image'.px) = {<<"track_box", track_box>>}
            /\ (track_box = None /\ detect_box # None) =>
                   C11_Boxes(display_image'.px) = {<<"detect_box", detect_box>>}
            /\ (track_box = None /\ detect_box = None) =>
                   C11_Boxes(display_image'.px) = {}
            /\ Cardinality(C11_Boxes(display_image'.px)) <= 1 ]_vars

\* C11 witness: a frame processed with both boxes set shows the TrackBox
\* outline and no DetectBox rectangle.
C11_Witness ==
    /\ FrameProcessed
    /\ track_box # None
    /\ detect_box # None
    /\ C11_Boxes(display_image.px) = {<<"track_box", track_box>>}

\* The frame callback has just run its key dispatch (lines 201-216).
KeyDispatched == pc = "key dispatch" /\ pc' = "idle"

\* C12: the key dispatch at the end of a frame changes only what the key
\* names: c unsets the feature list, TrackBox and DetectBox; n, f and t each
\* negate night mode, the feature-display flag and the text flag (so a second
\* press restores the flag); q only requests shutdown; any other key or no key
\* changes nothing.  Drag-start, SelectionRegion, the selected point, the ROI,
\* the buffers and the outputs are left as they were in every case.
C12_DispatchChangesOnlyWhatKeyNames ==
    [][ KeyDispatched =>
            /\ UNCHANGED <<image, image_size, grey, marker_image, display_image,
                           processed_image, selected_point, selection, drag_start,
                           keystroke, keep_marker_history, flip_image, fps,
                           fps_values, ROI, roi_topic, window>>
            /\ CASE keystroke[1] \in {67, 99} ->
                      /\ features' = "[]" /\ track_box' = None /\ detect_box' = None
                      /\ UNCHANGED <<night_mode, show_features, show_text, shutdown>>
                 [] keystroke[1] \in {78, 110} ->
                      /\ night_mode' = ~night_mode
                      /\ UNCHANGED <<features, track_box, detect_box, show_features,
                                     show_text, shutdown>>
                 [] keystroke[1] \in {70, 102} ->
                      /\ show_features' = ~show_features
                      /\ UNCHANGED <<features, track_box, detect_box, night_mode,
                                     show_text, shutdown>>
                 [] keystroke[1] \in {84, 116} ->
                      /\ show_text' = ~show_text
                      /\ UNCHANGED <<features, track_box, detect_box, night_mode,
                                     show_features, shutdown>>
                 [] keystroke[1] \in {81, 113} ->
                      /\ shutdown'
                      /\ UNCHANGED <<features, track_box, detect_box, night_mode,
                                     show_features, show_text>>
                 [] OTHER -> UNCHANGED node ]_vars

\* C12 witness: key C was dispatched at the end of a frame that had derived
\* the ROI from DetectBox: DetectBox is unset, the feature list is empty, the
\* ROI and the SelectionRegion are still those of the gesture and no flag is
\* switched.
C12_Witness ==
    /\ pc = "idle"
    /\ last.op = "frame" /\ last.outcome = "done"
    /\ keystroke = <<67>>
    /\ \E i \in DOMAIN trace : trace[i] = "ROI[4]"
    /\ detect_box = None
    /\ features = "[]"
    /\ selection # None
    /\ ROI = selection
    /\ ~night_mode /\ show_text /\ show_features /\ ~shutdown

\* C13: SelectionRegion is None in every state in which no drag is in
\* progress: it is set only while dragging and is None again after the
\* ButtonUp that ends the drag.
C13_SelectionNoneWhenIdle == drag_start = None => selection = None

\* DetectBox is set and has zero area.
C14_ZeroAreaDetectBox == detect_box # None /\ (detect_box[3] = 0 \/ detect_box[4] = 0)

\* C14: a frame processed with a zero-area DetectBox treats it as no
\* selection: it neither overwrites the ROI message from it nor draws a
\* DetectBox rectangle on the display buffer.
C14_ZeroAreaDetectBoxIgnored ==
    [][ (C14_ZeroAreaDetectBox /\ FrameProcessed') =>
            /\ ROI' = ROI
            /\ \A layer \in display_image'.px : layer[1] # "detect_box" ]_vars

\* The frame callback ran step a before step b.
C15_Before(a, b) ==
    \E i, j \in DOMAIN trace : i < j /\ trace[i] = a /\ trace[j] = b

\* C15: a frame callback that runs to its end has drawn the track/detect box,
\* then taken the end of the measured duration and updated the FPS estimator,
\* then drawn the text, then presented the display buffer, and only then
\* polled the keyboard and dispatched the key; the keyboard is not polled
\* within the measured duration.
C15_StepOrder ==
    (trace # << >> /\ Last(trace) = "key dispatch") =>
        /\ C15_Before("box", "end = time.time()")
        /\ ~C15_Before("cv.WaitKey", "end = time.time()")
        /\ C15_Before("end = time.time()", "cv.PutText")
        /\ C15_Before("cv.PutText", "cv.ShowImage")
        /\ C15_Before("cv.ShowImage", "cv.WaitKey")
        /\ C15_Before("cv.WaitKey", "key dispatch")

\* A drag is in progress and its SelectionRegion has nonzero area.
C16_DraggingNonzero ==
    drag_start # None /\ selection # None /\ selection[3] > 0 /\ selection[4] > 0

\* The shapes of one kind among the layers of the marker overlay.
C16_Drawn(px, kind) == {layer \in px : layer[1] = kind}

\* C16 as stated: in every processed frame, if a drag is in progress and
\* SelectionRegion has nonzero area only the rectangle is drawn and the point
\* marker is suppressed; the circle is drawn only in frames where a selected
\* point exists, no drag is in progress and no DetectBox has been resolved;
\* the rectangle and the circle are never both drawn.
C16_FeedbackCompositingOriginal ==
    [][ FrameProcessed' =>
            /\ C16_DraggingNonzero =>
                   marker_image'.px = {<<"selection", selection>>}
            /\ C16_Drawn(marker_image'.px, "selected_point") # {} =>
                   selected_point # None /\ drag_start = None /\ detect_box = None
            /\ C16_Drawn(marker_image'.px, "selection") = {}
               \/ C16_Drawn(marker_image'.px, "selected_point") = {} ]_vars

\* C16 amended: in every processed frame, if a drag is in progress and
\* SelectionRegion has nonzero area only the rectangle is drawn and the point
\* marker is suppressed (and the selected point forgotten); otherwise the
\* circle is drawn exactly when a selected point exists, whether or not a drag
\* is in progress or a DetectBox is set; the rectangle and the circle are
\* never both drawn.
C16_FeedbackCompositing ==
    [][ FrameProcessed' =>
            /\ C16_DraggingNonzero =>
                   /\ marker_image'.px = {<<"selection", selection>>}
                   /\ selected_point' = None
            /\ ~C16_DraggingNonzero =>
                   /\ C16_Drawn(marker_image'.px, "selection") = {}
                   /\ C16_Drawn(marker_image'.px, "selected_point") =
                          IF selected_point # None
                          THEN {<<"selected_point", selected_point>>} ELSE {}
                   /\ selected_point' = selected_point
            /\ C16_Drawn(marker_image'.px, "selection") = {}
               \/ C16_Drawn(marker_image'.px, "selected_point") = {} ]_vars

\* C16 witness: a frame processed during a drag whose SelectionRegion has
\* zero area has drawn the circle of the selected point.
C16_Witness ==
    /\ FrameProcessed
    /\ drag_start # None
    /\ ~C16_DraggingNonzero
    /\ marker_image.px = {<<"selected_point", selected_point>>}

\* C17: DetectBox is set exactly once per drag gesture: it changes from unset
\* to set only when a ButtonUp ends a drag that is in progress; a ButtonUp
\* received while no drag is in progress leaves DetectBox unchanged, and
\* PointerMove events and frames with keys other than c never change it.
C17_DetectBoxSetOncePerDrag ==
    [][ /\ (detect_box = None /\ detect_box' # None) =>
               /\ last'.op = "mouse" /\ last'.event = "CV_EVENT_LBUTTONUP"
               /\ drag_start # None
        /\ (last'.op = "mouse" /\ last'.event = "CV_EVENT_LBUTTONUP"
            /\ drag_start = None) =>
               detect_box' = detect_box
        /\ (last'.op = "mouse" /\ last'.event = "CV_EVENT_MOUSEMOVE") =>
               detect_box' = detect_box
        /\ (last'.op = "frame" /\ keystroke' \notin {<<67>>, <<99>>}) =>
               detect_box' = detect_box ]_vars

\* C18: a drag in progress and a set DetectBox never hold together: whenever
\* drag-start is set DetectBox is unset, under any interleaving of pointer
\* events, frames and key commands.
C18_DragExcludesDetectBox == drag_start # None => detect_box = None

\* C18 witness: a second drag has started after the DetectBox of the first
\* one was published as the ROI: the press has unset DetectBox.
C18_Witness ==
    /\ MouseHandled("CV_EVENT_LBUTTONDOWN")
    /\ drag_start # None
    /\ detect_box = None
    /\ ROI # RegionOfInterest
    /\ roi_topic # << >>
    /\ ROI = Last(roi_topic)

\* The current or latest frame callback has run the given step.
C19_Ran(step) == \E i \in DOMAIN trace : trace[i] = step

\* C19: with pointer events handled between any two statements of a frame
\* callback, the frame never reads the fields of a DetectBox that has become
\* unset since the test that found it set (in the ROI derivation or in the
\* box drawing), and the box drawn in a frame is the DetectBox from which the
\* ROI published in that frame derives.
C19_FrameSeesOneDetectBox ==
    /\ ~( /\ last.op = "frame" /\ last.outcome = "raised"
          /\ last.at \in {"self.detect_box[i]",
                          "(pt1_x, pt1_y, w, h) = self.detect_box"} )
    /\ C19_Ran("cv.Rectangle") =>
           \A layer \in display_image.px :
               layer[1] = "detect_box" => layer[2] = Last(roi_topic)

\* C20: until the first color frame has been converted and the buffers
\* allocated, every pointer event is ignored: drag-start, SelectionRegion, the
\* selected point and DetectBox all stay unset, so a ButtonDown starts no drag
\* and a later ButtonUp finalizes nothing.
C20_PointerIgnoredBeforeFirstFrame ==
    /\ [](~image.allocated =>
              /\ drag_start = None /\ selection = None
              /\ selected_point = None /\ detect_box = None)
    /\ [][ (~image.allocated /\ last'.op = "mouse") =>
               /\ last'.outcome = "ignored"
               /\ UNCHANGED node ]_vars

\* C20 witness: a ButtonDown and then a ButtonUp were received after a frame
\* that failed to convert and before any frame was converted: nothing is set.
C20_Witness ==
    /\ last.op = "mouse" /\ last.event = "CV_EVENT_LBUTTONUP"
    /\ last.outcome = "ignored"
    /\ nmouse = 2 /\ nframes >= 1
    /\ ~image.allocated
    /\ drag_start = None /\ detect_box = None

====
